---- MODULE Spec2Model ----
(***************************************************************************)
(* Model of the snowflake identifier generator (src/snowflake.go).         *)
(*                                                                         *)
(* A worker holds workerID, datacenterID, sequence, lastTimestamp and a    *)
(* mutex.  Next reads the clock, compares the reading with lastTimestamp   *)
(* WITHOUT holding the mutex, then locks, updates sequence, possibly spins *)
(* in tilNextMillis, stores lastTimestamp, composes the identifier and     *)
(* unlocks.  Each of these steps is one action, so that calls of several   *)
(* threads interleave as the Go scheduler lets them.                       *)
(*                                                                         *)
(* Millisecond timestamps are int64 values near 1.5e12, beyond the         *)
(* integers TLC evaluates, so a timestamp is kept as two limbs             *)
(* [hi, lo] standing for hi * Limb + lo.  Identifiers are kept as          *)
(* integers: with clock readings a few hundred milliseconds after twepoch  *)
(* they stay below 2^31, far from the int64 width.                         *)
(***************************************************************************)
EXTENDS Integers, FiniteSets, Sequences, TLC

(***************************************************************************)
(* Bounds of the model.                                                    *)
(***************************************************************************)
\* the clock reads twepoch+100 .. twepoch+100+MaxClock
MaxClock == 2
\* number of Next calls started in a run with a call budget
MaxCalls == 4
\* number of Next calls started in a run that begins with any NewWorker call
NewCalls == 2
\* NewWorker arguments (uint8) are drawn from 0..MaxArg and 255
MaxArg == 32

(***************************************************************************)
(* int64 arithmetic on two-limb values and on small integers.              *)
(***************************************************************************)
Limb == 1000000

Millis(h, l) == [hi |-> h, lo |-> l]

Zero == Millis(0, 0)

\* a < b
Less(a, b) == a.hi < b.hi \/ (a.hi = b.hi /\ a.lo < b.lo)

\* a - b
Sub(a, b) ==
  IF a.lo >= b.lo THEN Millis(a.hi - b.hi, a.lo - b.lo)
                  ELSE Millis(a.hi - b.hi - 1, a.lo - b.lo + Limb)

\* the integer a two-limb value stands for
Small(x) == x.hi * Limb + x.lo

\* x << n
Shl(x, n) == x * (2 ^ n)

\* x >> n (arithmetic shift: floor division)
Shr(x, n) == x \div (2 ^ n)

\* -1 ^ x, the bitwise complement of x in two's complement
NotBits(x) == (-1) - x

RECURSIVE BitAnd(_, _)
\* a & b for a, b >= 0
BitAnd(a, b) ==
  IF a = 0 \/ b = 0 THEN 0
  ELSE (IF a % 2 = 1 /\ b % 2 = 1 THEN 1 ELSE 0) + 2 * BitAnd(a \div 2, b \div 2)

RECURSIVE BitOr(_, _)
\* a | b for a, b >= 0
BitOr(a, b) ==
  IF a = 0 THEN b
  ELSE IF b = 0 THEN a
  ELSE (IF a % 2 = 1 \/ b % 2 = 1 THEN 1 ELSE 0) + 2 * BitOr(a \div 2, b \div 2)

(***************************************************************************)
(* The constants of the scheme (const block, lines 20-33).                 *)
(***************************************************************************)
twepoch == Millis(1546272, 0)

workerIDBits == 5

datacenterIDBits == 5

maxWorkerID == NotBits(Shl(-1, workerIDBits))

maxDatacenterID == NotBits(Shl(-1, datacenterIDBits))

sequenceBits == 12

workerIDShift == sequenceBits

datacenterIDShift == sequenceBits + workerIDBits

timestampLeftShift == sequenceBits + workerIDBits + datacenterIDBits

sequenceMask == NotBits(Shl(-1, sequenceBits))

(***************************************************************************)
(* State.                                                                  *)
(***************************************************************************)
\* DefaultWorker is the package variable; w1 and w2 receive NewWorker's result
Workers == {"DefaultWorker", "w1", "w2"}

Threads == {"t1", "t2"}

\* no worker, no thread target
Nil == "nil"

\* no identifier (identifiers of the modelled runs are >= 0)
NoID == 0 - 1

\* no call budget
Unbounded == 0 - 1

\* NewWorker was not called
NoArgs == <<0 - 1, 0 - 1>>

\* the error result nil, and the error of line 71 with the number it reports
NoError == [failed |-> FALSE, ms |-> [hi |-> 0, lo |-> 0]]

ClockRegression(ms) == [failed |-> TRUE, ms |-> ms]

ClockDeltas == 100 .. (100 + MaxClock)

\* the uint8 arguments NewWorker is tried with
ArgValues == (0 .. MaxArg) \cup {255}

\* the arguments the two workers of SpecPair are made with
PairWorkerIDs == {0, 1, maxWorkerID}

PairDatacenterIDs == {0, maxDatacenterID}

VARIABLES
  w,           \* w[g]: the worker struct behind g (the zero struct while g is not made)
  made,        \* the workers that exist: DefaultWorker and those NewWorker returned
  fatal,       \* log.Fatalf ended the process
  clock,       \* what time.Now().UnixNano() / 1e6 returns now
  target,      \* target[t]: the worker thread t calls Next on (Nil: t makes no call)
  pc,          \* pc[t]: where thread t is in Next
  timestamp,   \* timestamp[t]: the local variable timestamp of t's call
  ret,         \* ret[t]: the int64 the last finished call of t returned
  err,         \* err[t]: the error the last finished call of t returned
  visible,     \* visible[t]: the values an unsynchronised read of lastTimestamp by t may return
  pre,         \* pre[t]: history: lastTimestamp and sequence when t's call began, its reading
  lastIssued,  \* lastIssued[g]: history: the identifier g issued last (NoID: none)
  issued,      \* issued[g]: history: identifiers returned by step-by-step calls on g,
               \* kept in the runs that have a call budget
  budget,      \* calls that may still start, or Unbounded
  args         \* args[g]: history: the arguments NewWorker was called with for g

vars == <<w, made, fatal, clock, target, pc, timestamp, ret, err, visible, pre,
          lastIssued, issued, budget, args>>

\* &worker{...}: sequence, lastTimestamp and mutex take their zero values
NewStruct(workerID, datacenterID) ==
  [workerID |-> workerID, datacenterID |-> datacenterID,
   sequence |-> 0, lastTimestamp |-> Zero, mutex |-> FALSE]

\* &worker{} with workerID 1 in place of the zero value
DefaultWorkerOne ==
  [workerID |-> 1, datacenterID |-> 0,
   sequence |-> 0, lastTimestamp |-> Zero, mutex |-> FALSE]

\* line 93: &worker{}, every field has its zero value
DefaultWorker ==
  [workerID |-> 0, datacenterID |-> 0,
   sequence |-> 0, lastTimestamp |-> Zero, mutex |-> FALSE]

NoPre == [lastTimestamp |-> Zero, sequence |-> 0, reading |-> Zero, compared |-> Zero]

\* the process has started: DefaultWorker exists, NewWorker was not called yet
InitWith(tgt, bud) ==
  /\ w = [g \in Workers |-> IF g = "DefaultWorker" THEN DefaultWorker ELSE NewStruct(0, 0)]
  /\ made = {"DefaultWorker"}
  /\ fatal = FALSE
  /\ clock = Millis(twepoch.hi, 100)
  /\ target = tgt
  /\ pc = [t \in Threads |-> "idle"]
  /\ timestamp = [t \in Threads |-> Zero]
  /\ ret = [t \in Threads |-> 0]
  /\ err = [t \in Threads |-> NoError]
  /\ visible = [t \in Threads |-> {Zero}]
  /\ pre = [t \in Threads |-> NoPre]
  /\ lastIssued = [g \in Workers |-> NoID]
  /\ issued = [g \in Workers |-> {}]
  /\ budget = bud
  /\ args = [g \in Workers |-> NoArgs]

(***************************************************************************)
(* The system clock.                                                       *)
(***************************************************************************)
Tick ==
  /\ ~fatal
  /\ clock.lo < 100 + MaxClock
  /\ clock' = Millis(clock.hi, clock.lo + 1)
  /\ UNCHANGED <<w, made, fatal, target, pc, timestamp, ret, err, visible, pre,
                 lastIssued, issued, budget, args>>

\* the clock is set back (NTP step, operator)
ClockBack ==
  /\ ~fatal
  /\ \E d \in ClockDeltas :
       /\ d < clock.lo
       /\ clock' = Millis(clock.hi, d)
  /\ UNCHANGED <<w, made, fatal, target, pc, timestamp, ret, err, visible, pre,
                 lastIssued, issued, budget, args>>

(***************************************************************************)
(* NewWorker (lines 49-57).                                                *)
(***************************************************************************)
\* NewWorker whose range checks are written >= : the largest id is refused
NewWorkerOffByOne(g, workerID, datacenterID) ==
  /\ ~fatal
  /\ g \notin made
  /\ args' = [args EXCEPT ![g] = <<workerID, datacenterID>>]
  /\ IF workerID >= maxWorkerID \/ datacenterID >= maxDatacenterID
     THEN /\ fatal' = TRUE
          /\ UNCHANGED <<w, made>>
     ELSE /\ w' = [w EXCEPT ![g] = NewStruct(workerID, datacenterID)]
          /\ made' = made \cup {g}
          /\ UNCHANGED fatal
  /\ UNCHANGED <<clock, target, pc, timestamp, ret, err, visible, pre,
                 lastIssued, issued, budget>>

NewWorker(g, workerID, datacenterID) ==
  /\ ~fatal
  /\ g \notin made
  /\ args' = [args EXCEPT ![g] = <<workerID, datacenterID>>]
  /\ IF workerID > maxWorkerID \/ datacenterID > maxDatacenterID
     THEN /\ fatal' = TRUE
          /\ UNCHANGED <<w, made>>
     ELSE /\ w' = [w EXCEPT ![g] = NewStruct(workerID, datacenterID)]
          /\ made' = made \cup {g}
          /\ UNCHANGED fatal
  /\ UNCHANGED <<clock, target, pc, timestamp, ret, err, visible, pre,
                 lastIssued, issued, budget>>

(***************************************************************************)
(* worker.Next (lines 68-90) and tilNextMillis (lines 59-65).              *)
(***************************************************************************)
\* ComposeID with the shifts of the datacenter id and the worker id exchanged
ComposeIDSwapped(ts, datacenterID, workerID, sequence) ==
  BitOr(BitOr(BitOr(Shl(Small(Sub(ts, twepoch)), timestampLeftShift),
                    Shl(datacenterID, workerIDShift)),
              Shl(workerID, datacenterIDShift)),
        sequence)

\* ComposeID that leaves the worker id out
ComposeIDNoWorker(ts, datacenterID, workerID, sequence) ==
  BitOr(BitOr(Shl(Small(Sub(ts, twepoch)), timestampLeftShift),
              Shl(datacenterID, datacenterIDShift)),
        sequence)

\* lines 84-87
ComposeID(ts, datacenterID, workerID, sequence) ==
  BitOr(BitOr(BitOr(Shl(Small(Sub(ts, twepoch)), timestampLeftShift),
                    Shl(datacenterID, datacenterIDShift)),
              Shl(workerID, workerIDShift)),
        sequence)

\* A write of lastTimestamp by thread t.  The reads of lines 70 and 71 race
\* with it: t itself reads the new value back; a thread that has not locked
\* the mutex since may read the new value or any value it could read before.
\* Locking the mutex (NextLock) makes the current value the only one.
Published(t, ts) ==
  [u \in Threads |->
     IF u = t THEN {ts}
     ELSE IF target[u] = target[t] THEN visible[u] \cup {ts}
     ELSE visible[u]]

\* the call of t returns: its local variable and the history of the call end
Returned(t) ==
  /\ pc' = [pc EXCEPT ![t] = "idle"]
  /\ timestamp' = [timestamp EXCEPT ![t] = Zero]
  /\ pre' = [pre EXCEPT ![t] = NoPre]

\* line 69
NextNow(t) ==
  /\ ~fatal
  /\ target[t] # Nil
  /\ target[t] \in made
  /\ pc[t] = "idle"
  /\ budget # 0
  /\ budget' = IF budget = Unbounded THEN budget ELSE budget - 1
  /\ timestamp' = [timestamp EXCEPT ![t] = clock]
  /\ pre' = [pre EXCEPT ![t] = [lastTimestamp |-> w[target[t]].lastTimestamp,
                                sequence |-> w[target[t]].sequence,
                                reading |-> clock,
                                compared |-> Zero]]
  /\ pc' = [pc EXCEPT ![t] = "check"]
  /\ UNCHANGED <<w, made, fatal, clock, target, ret, err, visible, lastIssued, issued, args>>

\* NextCheck without the comparison of line 70: no reading is refused
NextCheckNone(t) ==
  /\ ~fatal
  /\ pc[t] = "check"
  /\ \E seen \in visible[t] :
       /\ pre' = [pre EXCEPT ![t].compared = seen]
       /\ pc' = [pc EXCEPT ![t] = "lock"]
  /\ UNCHANGED <<w, made, fatal, clock, target, timestamp, ret, err, visible,
                 lastIssued, issued, budget, args>>

\* NextCheck with the comparison of line 70 written <= : a reading equal to
\* lastTimestamp is refused too
NextCheckLeq(t) ==
  /\ ~fatal
  /\ pc[t] = "check"
  /\ \E seen \in visible[t] :
       /\ pre' = [pre EXCEPT ![t].compared = seen]
       /\ pc' = [pc EXCEPT ![t] = IF ~Less(seen, timestamp[t]) THEN "fail" ELSE "lock"]
  /\ UNCHANGED <<w, made, fatal, clock, target, timestamp, ret, err, visible,
                 lastIssued, issued, budget, args>>

\* line 70: lastTimestamp is read without the mutex
NextCheck(t) ==
  /\ ~fatal
  /\ pc[t] = "check"
  /\ \E seen \in visible[t] :
       /\ pre' = [pre EXCEPT ![t].compared = seen]
       /\ pc' = [pc EXCEPT ![t] = IF Less(timestamp[t], seen) THEN "fail" ELSE "lock"]
  /\ UNCHANGED <<w, made, fatal, clock, target, timestamp, ret, err, visible,
                 lastIssued, issued, budget, args>>

\* NextFail that also resets the sequence on the error path
NextFailReset(t) ==
  /\ ~fatal
  /\ pc[t] = "fail"
  /\ \E seen \in visible[t] :
       err' = [err EXCEPT ![t] = ClockRegression(Sub(seen, timestamp[t]))]
  /\ ret' = [ret EXCEPT ![t] = 0]
  /\ w' = [w EXCEPT ![target[t]].sequence = 0]
  /\ Returned(t)
  /\ UNCHANGED <<made, fatal, clock, target, visible, lastIssued, issued, budget, args>>

\* line 71: lastTimestamp is read again for the message, without the mutex
NextFail(t) ==
  /\ ~fatal
  /\ pc[t] = "fail"
  /\ \E seen \in visible[t] :
       err' = [err EXCEPT ![t] = ClockRegression(Sub(seen, timestamp[t]))]
  /\ ret' = [ret EXCEPT ![t] = 0]
  /\ Returned(t)
  /\ UNCHANGED <<w, made, fatal, clock, target, visible, lastIssued, issued, budget, args>>

\* NextLock that does not wait for the mutex to be free
NextLockNoWait(t) ==
  /\ ~fatal
  /\ pc[t] = "lock"
  /\ w' = [w EXCEPT ![target[t]].mutex = TRUE]
  /\ visible' = [visible EXCEPT ![t] = {w[target[t]].lastTimestamp}]
  /\ pc' = [pc EXCEPT ![t] = "update"]
  /\ UNCHANGED <<made, fatal, clock, target, timestamp, ret, err, pre,
                 lastIssued, issued, budget, args>>

\* line 73
NextLock(t) ==
  /\ ~fatal
  /\ pc[t] = "lock"
  /\ ~w[target[t]].mutex
  /\ w' = [w EXCEPT ![target[t]].mutex = TRUE]
  /\ visible' = [visible EXCEPT ![t] = {w[target[t]].lastTimestamp}]
  /\ pc' = [pc EXCEPT ![t] = "update"]
  /\ UNCHANGED <<made, fatal, clock, target, timestamp, ret, err, pre,
                 lastIssued, issued, budget, args>>

\* NextSequence that gives the mutex back before it waits in tilNextMillis
NextSequenceUnlocked(t) ==
  /\ ~fatal
  /\ pc[t] = "update"
  /\ IF timestamp[t] = w[target[t]].lastTimestamp
     THEN IF BitAnd(w[target[t]].sequence + 1, sequenceMask) = 0
          THEN /\ w' = [w EXCEPT ![target[t]].sequence = 0,
                                 ![target[t]].mutex = FALSE]
               /\ pc' = [pc EXCEPT ![t] = "spin"]
          ELSE /\ w' = [w EXCEPT ![target[t]].sequence =
                          BitAnd(w[target[t]].sequence + 1, sequenceMask)]
               /\ pc' = [pc EXCEPT ![t] = "store"]
     ELSE /\ w' = [w EXCEPT ![target[t]].sequence = 0]
          /\ pc' = [pc EXCEPT ![t] = "store"]
  /\ UNCHANGED <<made, fatal, clock, target, timestamp, ret, err, visible, pre,
                 lastIssued, issued, budget, args>>

\* NextSequence that forgets the increment of line 75
NextSequenceStuck(t) ==
  /\ ~fatal
  /\ pc[t] = "update"
  /\ IF timestamp[t] = w[target[t]].lastTimestamp
     THEN /\ w' = w
          /\ pc' = [pc EXCEPT ![t] = "store"]
     ELSE /\ w' = [w EXCEPT ![target[t]].sequence = 0]
          /\ pc' = [pc EXCEPT ![t] = "store"]
  /\ UNCHANGED <<made, fatal, clock, target, timestamp, ret, err, visible, pre,
                 lastIssued, issued, budget, args>>

\* lines 74-82
NextSequence(t) ==
  /\ ~fatal
  /\ pc[t] = "update"
  /\ IF timestamp[t] = w[target[t]].lastTimestamp
     THEN /\ w' = [w EXCEPT ![target[t]].sequence =
                     BitAnd(w[target[t]].sequence + 1, sequenceMask)]
          /\ pc' = [pc EXCEPT ![t] =
                     IF BitAnd(w[target[t]].sequence + 1, sequenceMask) = 0
                     THEN "spin" ELSE "store"]
     ELSE /\ w' = [w EXCEPT ![target[t]].sequence = 0]
          /\ pc' = [pc EXCEPT ![t] = "store"]
  /\ UNCHANGED <<made, fatal, clock, target, timestamp, ret, err, visible, pre,
                 lastIssued, issued, budget, args>>

\* tilNextMillis whose loop of line 61 is written < : it ends at a reading
\* equal to lastTimestamp
tilNextMillisSame(t) ==
  /\ ~fatal
  /\ pc[t] = "spin"
  /\ ~Less(clock, w[target[t]].lastTimestamp)
  /\ timestamp' = [timestamp EXCEPT ![t] = clock]
  /\ pc' = [pc EXCEPT ![t] = "store"]
  /\ UNCHANGED <<w, made, fatal, clock, target, ret, err, visible, pre,
                 lastIssued, issued, budget, args>>

\* lines 59-65, called at line 78: the loop ends at the first reading above
\* lastTimestamp; a reading that is not above it changes nothing
tilNextMillis(t) ==
  /\ ~fatal
  /\ pc[t] = "spin"
  /\ Less(w[target[t]].lastTimestamp, clock)
  /\ timestamp' = [timestamp EXCEPT ![t] = clock]
  /\ pc' = [pc EXCEPT ![t] = "store"]
  /\ UNCHANGED <<w, made, fatal, clock, target, ret, err, visible, pre,
                 lastIssued, issued, budget, args>>

\* NextStore that forgets w.mutex.Unlock() of line 88
NextStoreNoUnlock(t) ==
  /\ ~fatal
  /\ pc[t] = "store"
  /\ LET g == target[t]
         id == ComposeID(timestamp[t], w[g].datacenterID, w[g].workerID, w[g].sequence)
     IN /\ w' = [w EXCEPT ![g].lastTimestamp = timestamp[t]]
        /\ ret' = [ret EXCEPT ![t] = id]
        /\ err' = [err EXCEPT ![t] = NoError]
        /\ lastIssued' = [lastIssued EXCEPT ![g] = id]
        /\ issued' = IF budget = Unbounded THEN issued
                     ELSE [issued EXCEPT ![g] = @ \cup {id}]
  /\ visible' = Published(t, timestamp[t])
  /\ Returned(t)
  /\ UNCHANGED <<made, fatal, clock, target, budget, args>>

\* lines 83-89
NextStore(t) ==
  /\ ~fatal
  /\ pc[t] = "store"
  /\ LET g == target[t]
         id == ComposeID(timestamp[t], w[g].datacenterID, w[g].workerID, w[g].sequence)
     IN /\ w' = [w EXCEPT ![g].lastTimestamp = timestamp[t], ![g].mutex = FALSE]
        /\ ret' = [ret EXCEPT ![t] = id]
        /\ err' = [err EXCEPT ![t] = NoError]
        /\ lastIssued' = [lastIssued EXCEPT ![g] = id]
        /\ issued' = IF budget = Unbounded THEN issued
                     ELSE [issued EXCEPT ![g] = @ \cup {id}]
  /\ visible' = Published(t, timestamp[t])
  /\ Returned(t)
  /\ UNCHANGED <<made, fatal, clock, target, budget, args>>

\* Thread t makes sequenceMask - sequence further calls, one after the other,
\* while no other call on the worker is in progress and the clock keeps reading
\* lastTimestamp: each takes the branch of line 75 and none wraps, the last one
\* stores sequenceMask.  The calls are taken in one step and are not counted in
\* the budget.
NextBurst(t) ==
  /\ ~fatal
  /\ target[t] # Nil
  /\ target[t] \in made
  /\ budget # Unbounded
  /\ \A u \in Threads : target[u] = target[t] => pc[u] = "idle"
  /\ LET g == target[t]
         id == ComposeID(clock, w[g].datacenterID, w[g].workerID, sequenceMask)
     IN /\ ~w[g].mutex
        /\ clock = w[g].lastTimestamp
        /\ visible[t] = {clock}
        /\ w[g].sequence < sequenceMask
        /\ w' = [w EXCEPT ![g].sequence = sequenceMask]
        /\ ret' = [ret EXCEPT ![t] = id]
        /\ err' = [err EXCEPT ![t] = NoError]
        /\ lastIssued' = [lastIssued EXCEPT ![g] = id]
  /\ visible' = Published(t, clock)
  /\ UNCHANGED <<made, fatal, clock, target, pc, timestamp, pre, issued, budget, args>>

\* thread t is between w.mutex.Lock() (line 73) and w.mutex.Unlock() (line 88)
Holds(t) == pc[t] \in {"update", "spin", "store"}

\* this step is the return of line 89 by thread t
Issues(t) == pc[t] = "store" /\ pc'[t] = "idle"

\* this step is the return of line 71 by thread t
Fails(t) == pc[t] = "fail" /\ pc'[t] = "idle"

(***************************************************************************)
(* Specifications.                                                         *)
(***************************************************************************)
\* Two threads call Next on one worker; the clock never moves backward.
Init == InitWith([t \in Threads |-> "w1"], MaxCalls)

Step ==
  \/ Tick
  \/ NewWorker("w1", 3, 5)
  \/ \E t \in Threads :
       \/ NextNow(t)
       \/ NextCheck(t)
       \/ NextFail(t)
       \/ NextLock(t)
       \/ NextSequence(t)
       \/ tilNextMillis(t)
       \/ NextStore(t)
       \/ NextBurst(t)

Spec == Init /\ [][Step]_vars

\* One thread calls Next on one worker, each call after the previous one has
\* returned, as often as it likes; the clock moves forward and backward.
InitSeq == InitWith([t \in Threads |-> IF t = "t1" THEN "w1" ELSE Nil], Unbounded)

StepSeq ==
  \/ Tick
  \/ ClockBack
  \/ NewWorker("w1", 3, 5)
  \/ NextNow("t1")
  \/ NextCheck("t1")
  \/ NextFail("t1")
  \/ NextLock("t1")
  \/ NextSequence("t1")
  \/ tilNextMillis("t1")
  \/ NextStore("t1")

SpecSeq == InitSeq /\ [][StepSeq]_vars

\* NewWorker is called with any arguments; one thread then calls Next on the
\* worker it returned.
InitNew == InitWith([t \in Threads |-> IF t = "t1" THEN "w1" ELSE Nil], NewCalls)

StepNew ==
  \/ Tick
  \/ ClockBack
  \/ /\ "w1" \notin made
     /\ \E workerID, datacenterID \in ArgValues : NewWorker("w1", workerID, datacenterID)
  \/ NextNow("t1")
  \/ NextCheck("t1")
  \/ NextFail("t1")
  \/ NextLock("t1")
  \/ NextSequence("t1")
  \/ tilNextMillis("t1")
  \/ NextStore("t1")
  \/ NextBurst("t1")

SpecNew == InitNew /\ [][StepNew]_vars

\* Two workers are made; thread t1 calls Next on one, thread t2 on the other.
InitPair == InitWith([t \in Threads |-> IF t = "t1" THEN "w1" ELSE "w2"], NewCalls)

StepPair ==
  \/ Tick
  \/ ClockBack
  \/ \E g \in {"w1", "w2"} :
       \E workerID \in PairWorkerIDs, datacenterID \in PairDatacenterIDs :
         NewWorker(g, workerID, datacenterID)
  \/ \E t \in Threads :
       \/ NextNow(t)
       \/ NextCheck(t)
       \/ NextFail(t)
       \/ NextLock(t)
       \/ NextSequence(t)
       \/ tilNextMillis(t)
       \/ NextStore(t)
       \/ NextBurst(t)

SpecPair == InitPair /\ [][StepPair]_vars

\* Thread t1 calls the package-level Next (lines 96-98), which calls Next on
\* DefaultWorker; thread t2 calls Next on the worker NewWorker(0, 0) returned.
\* t2 makes the calls t1 makes and reads the clock values t1 reads: t1 takes a
\* step when the two have come equally far, t2 then takes the same step, and
\* the clock moves only when both have taken it.
InitDefault ==
  InitWith([t \in Threads |-> IF t = "t1" THEN "DefaultWorker" ELSE "w1"], MaxCalls)

\* the two callers have come equally far with equal results, and the two
\* workers are in the same state
InStep ==
  /\ pc["t1"] = pc["t2"]
  /\ timestamp["t1"] = timestamp["t2"]
  /\ ret["t1"] = ret["t2"]
  /\ err["t1"] = err["t2"]
  /\ w["DefaultWorker"] = w["w1"]

\* the caller of the package-level Next may take its next step, and the clock
\* may move
Lead == InStep /\ "w1" \in made

\* the caller of w1 has a step of a call to catch up with
Follow == ~InStep /\ pc["t1"] # pc["t2"]

StepDefault ==
  \/ NewWorker("w1", 0, 0)
  \/ Lead /\ Tick
  \/ Lead /\ ClockBack
  \/ Lead /\ NextNow("t1")
  \/ Lead /\ NextCheck("t1")
  \/ Lead /\ NextFail("t1")
  \/ Lead /\ NextLock("t1")
  \/ Lead /\ NextSequence("t1")
  \/ Lead /\ tilNextMillis("t1")
  \/ Lead /\ NextStore("t1")
  \/ Lead /\ NextBurst("t1")
  \/ Follow /\ NextNow("t2")
  \/ Follow /\ NextCheck("t2")
  \/ Follow /\ NextFail("t2")
  \/ Follow /\ NextLock("t2")
  \/ Follow /\ NextSequence("t2")
  \/ Follow /\ tilNextMillis("t2")
  \/ Follow /\ NextStore("t2")
  \/ ~InStep /\ pc["t1"] = pc["t2"] /\ NextBurst("t2")

SpecDefault == InitDefault /\ [][StepDefault]_vars
\* Two threads call Next on one worker under fair scheduling.  The clock moves
\* forward and is read by time.Now() again and again; a call starts only while
\* the modelled clock still has a later millisecond to show, so that the clock
\* passes every millisecond a call can wait for.
StepLive ==
  \/ Tick
  \/ NewWorker("w1", 3, 5)
  \/ \E t \in Threads :
       \/ clock.lo < 100 + MaxClock /\ NextNow(t)
       \/ NextCheck(t)
       \/ NextFail(t)
       \/ NextLock(t)
       \/ NextSequence(t)
       \/ tilNextMillis(t)
       \/ NextStore(t)
       \/ NextBurst(t)

\* The step of Next that thread t takes next, once its call has started.  The
\* return of line 89 is told by the program counter alone, so that whether it
\* can be taken does not depend on the identifier it returns.
Proceed(t) ==
  \/ NextCheck(t)
  \/ NextFail(t)
  \/ NextLock(t)
  \/ NextSequence(t)
  \/ tilNextMillis(t)
  \/ pc[t] = "store" /\ pc' = [pc EXCEPT ![t] = "idle"]

\* The clock goes on, and a goroutine that can take its next step again and
\* again takes it: the scheduler runs every runnable goroutine, and sync.Mutex
\* hands the mutex to a waiter that would starve.
Fairness ==
  /\ WF_vars(Tick)
  /\ \A t \in Threads : SF_pc(Proceed(t))

SpecLive == Init /\ [][StepLive]_vars /\ Fairness

(***************************************************************************)
(* Claims about concurrent calls on one worker (Spec).                     *)
(***************************************************************************)
\* C1: with a clock that never moves backward, no call of any thread returns
\* an identifier that an earlier call on the same worker has returned.
C1_NoDuplicateID ==
  [][\A t \in Threads : Issues(t) => ret'[t] \notin issued[target[t]]]_vars

\* C3: lastTimestamp never decreases from one state to the next, and in the
\* order in which the calls hold the lock the issued identifiers never decrease.
C3_NeverBackward ==
  [][\A g \in Workers :
       /\ ~Less(w'[g].lastTimestamp, w[g].lastTimestamp)
       /\ \A t \in Threads :
            (Issues(t) /\ target[t] = g /\ lastIssued[g] # NoID)
              => ret'[t] >= lastIssued[g]]_vars

\* C10: at most one caller per worker is between Lock and Unlock, the mutex is
\* locked exactly while there is one, and a step that changes sequence or
\* lastTimestamp is a step of the caller holding the mutex (NextBurst stands
\* for whole calls, each of which locks and unlocks).
C10_Exclusive ==
  \A g \in Workers :
    /\ Cardinality({t \in Threads : target[t] = g /\ Holds(t)}) <= 1
    /\ w[g].mutex <=> (\E t \in Threads : target[t] = g /\ Holds(t))

C10_MutualExclusion ==
  /\ []C10_Exclusive
  /\ [][\A g \in Workers :
          (\/ w'[g].sequence # w[g].sequence
           \/ w'[g].lastTimestamp # w[g].lastTimestamp)
            => \/ \E t \in Threads :
                    /\ target[t] = g /\ Holds(t) /\ w[g].mutex
                    /\ pc'[t] # pc[t]
               \/ \E t \in Threads : NextBurst(t)]_vars

\* C10 witness: one thread holds the mutex while the other waits at line 73.
C10_Witness ==
  /\ pc["t1"] = "store" /\ pc["t2"] = "lock"
  /\ w["w1"].mutex

\* C14: with a clock that never moves backward a call can still fail with the
\* clock-regression error, and every call that fails is of this kind: when it
\* read the clock, lastTimestamp was not above its reading; the value it
\* compared at line 70, before taking the mutex, is above its reading and not
\* above the clock, so a concurrent call that passed the check has stored it
\* in between.
C14_SpuriousRegression ==
  [][/\ ~Less(clock', clock)
     /\ \A t \in Threads :
          Fails(t) =>
            /\ ~Less(pre[t].reading, pre[t].lastTimestamp)
            /\ Less(pre[t].reading, pre[t].compared)
            /\ ~Less(clock, pre[t].compared)
            /\ \E u \in Threads \ {t} : target[u] = target[t]]_vars

\* C14 witness: t1 has stored the reading 101 and returned its identifier; t2,
\* which read 100 before, has failed and reported 1 ms.
C14_Witness ==
  /\ pc["t1"] = "idle" /\ ~err["t1"].failed
  /\ ret["t1"] = lastIssued["w1"]
  /\ w["w1"].lastTimestamp = Millis(twepoch.hi, 101)
  /\ issued["w1"] = {ret["t1"]}
  /\ pc["t2"] = "idle" /\ err["t2"] = ClockRegression(Millis(0, 1))
  /\ ret["t2"] = 0

\* C15: whenever a call fails with the clock-regression error, the number of
\* milliseconds it reports is strictly positive and is the lastTimestamp value
\* compared at line 70 minus the clock reading of the call.  Stated for the
\* calls whose read of line 71 returns the value lastTimestamp has at that
\* moment, the one outcome every execution order of the two reads allows.
C15_ReportMatchesCheck ==
  [][\A t \in Threads :
       (Fails(t) /\ err'[t].ms = Sub(w[target[t]].lastTimestamp, pre[t].reading)) =>
         /\ Less(Millis(0, 0), err'[t].ms)
         /\ err'[t].ms = Sub(pre[t].compared, pre[t].reading)]_vars

\* C16: a call that waits in tilNextMillis holds the mutex.  From the wrap of
\* the sequence to 0 until the call stores its timestamp, no other caller of
\* the worker is between Lock and Unlock or returns an identifier, and
\* lastTimestamp, sequence and the identifier issued last stay as they are;
\* the call leaves tilNextMillis only with a clock reading strictly greater
\* than lastTimestamp, and goes on to line 83 with it.
C16_SpinHoldsLock ==
  [][\A t \in Threads :
       LET g == target[t]
           others == {u \in Threads \ {t} : target[u] = g}
       IN /\ pc[t] = "spin" =>
               /\ w[g].mutex /\ w[g].sequence = 0
               /\ w'[g].mutex /\ w'[g].sequence = 0
               /\ w'[g].lastTimestamp = w[g].lastTimestamp
               /\ lastIssued'[g] = lastIssued[g]
               /\ \A u \in others :
                    /\ ~Holds(u) /\ pc'[u] \notin {"update", "spin", "store"}
                    /\ ret'[u] # ret[u] => Fails(u)
               /\ pc'[t] # "spin" =>
                    /\ pc'[t] = "store"
                    /\ timestamp'[t] = clock
                    /\ Less(w[g].lastTimestamp, timestamp'[t])
          /\ (Holds(t) /\ pc'[t] = pc[t]) =>
               /\ w'[g] = w[g]
               /\ lastIssued'[g] = lastIssued[g]
               /\ \A u \in others : ~Issues(u)]_vars

\* C16 witness: t1 found sequence 4095 in its own millisecond and has left
\* tilNextMillis with a later reading it has not stored yet; t2 has waited
\* for the mutex all the while.
C16_Witness ==
  /\ pc["t1"] = "store"
  /\ pre["t1"].sequence = sequenceMask
  /\ pre["t1"].reading = pre["t1"].lastTimestamp
  /\ w["w1"].sequence = 0 /\ w["w1"].mutex
  /\ Less(w["w1"].lastTimestamp, timestamp["t1"])
  /\ pc["t2"] = "lock"
  /\ pre["t2"].reading = w["w1"].lastTimestamp

\* C17: sequence is always in 0 .. 4095; a call whose timestamp equals
\* lastTimestamp at line 74 stores the previous sequence plus 1 modulo 4096;
\* and a call returns an identifier with sequence 0 only if the timestamp it
\* stores is strictly greater than the lastTimestamp it overwrites.
C17_SequenceRule ==
  /\ [](\A g \in Workers : w[g].sequence \in 0 .. 4095)
  /\ [][\A t \in Threads :
          LET g == target[t]
          IN /\ (pc[t] = "update" /\ pc'[t] # "update"
                   /\ timestamp[t] = w[g].lastTimestamp)
                  => w'[g].sequence = (w[g].sequence + 1) % 4096
             /\ (Issues(t) /\ BitAnd(ret'[t], sequenceMask) = 0)
                  => Less(w[g].lastTimestamp, timestamp[t])]_vars

(***************************************************************************)
(* Claims about one thread calling Next again and again (SpecSeq).         *)
(***************************************************************************)
\* C2: a call whose clock reading is not below the lastTimestamp it finds does
\* not fail, and every identifier returned is strictly greater than the one
\* the previous successful call returned.
C2_StrictlyIncreasing ==
  [][\A t \in Threads :
       /\ Fails(t) => Less(pre[t].reading, pre[t].lastTimestamp)
       /\ (Issues(t) /\ lastIssued[target[t]] # NoID)
            => ret'[t] > lastIssued[target[t]]]_vars

\* C2 witness: the third call within one millisecond has returned.
C2_Witness ==
  /\ pc["t1"] = "idle" /\ ~err["t1"].failed
  /\ w["w1"].sequence = 2
  /\ ret["t1"] = lastIssued["w1"]

\* C4: a call returns an error exactly when its reading is below the
\* lastTimestamp of the worker; the error reports lastTimestamp minus the
\* reading and comes with the identifier 0; a call that waits in tilNextMillis
\* goes on to line 83 and returns no error.
C4_ErrorIffRegression ==
  [][\A t \in Threads :
       /\ Fails(t) =>
            /\ Less(pre[t].reading, pre[t].lastTimestamp)
            /\ w[target[t]].lastTimestamp = pre[t].lastTimestamp
            /\ err'[t] = ClockRegression(Sub(w[target[t]].lastTimestamp, pre[t].reading))
            /\ ret'[t] = 0
       /\ Issues(t) =>
            /\ ~Less(pre[t].reading, pre[t].lastTimestamp)
            /\ err'[t] = NoError
       /\ (pc[t] = "spin" /\ pc'[t] # "spin") => pc'[t] = "store"]_vars

\* C4 witness: the clock was set back by 2 ms and the call reported 2.
C4_Witness ==
  /\ pc["t1"] = "idle"
  /\ err["t1"] = ClockRegression(Millis(0, 2))
  /\ ret["t1"] = 0
  /\ Sub(w["w1"].lastTimestamp, clock) = Millis(0, 2)

\* C5: a call that fails changes nothing in the worker, finds lastTimestamp and
\* sequence as they were when it began and never has the mutex; the next call
\* whose reading equals lastTimestamp stores the sequence that follows the one
\* of the identifier issued last.
C5_FailureLeavesState ==
  [][\A t \in Threads :
       /\ pc[t] \in {"check", "fail"} =>
            /\ w'[target[t]] = w[target[t]]
            /\ ~w[target[t]].mutex
            /\ pc[t] = "fail" => pc'[t] \in {"fail", "idle"}
       /\ Fails(t) =>
            /\ w'[target[t]].lastTimestamp = pre[t].lastTimestamp
            /\ w'[target[t]].sequence = pre[t].sequence
       /\ (pc[t] = "update" /\ pc'[t] # "update" /\ err[t].failed
             /\ timestamp[t] = w[target[t]].lastTimestamp)
            => w'[target[t]].sequence =
                 (BitAnd(lastIssued[target[t]], sequenceMask) + 1) % (sequenceMask + 1)]_vars

\* C5 witness: the call before this one failed, and this one, reading
\* lastTimestamp again, has stored the next sequence.
C5_Witness ==
  /\ pc["t1"] = "store" /\ err["t1"].failed
  /\ timestamp["t1"] = w["w1"].lastTimestamp
  /\ w["w1"].sequence = BitAnd(lastIssued["w1"], sequenceMask) + 1

\* C6: a call that reads the millisecond T the worker issued at last returns
\* T with the next sequence while the sequence is below 4095; the call that
\* finds sequence 4095 returns sequence 0 with a timestamp above T; the first
\* identifier at any timestamp has sequence 0; so no identifier is repeated.
C6_Exhaustion ==
  [][\A t \in Threads :
       Issues(t) =>
         LET g == target[t]
             T == pre[t].lastTimestamp
         IN /\ (pre[t].reading = T /\ pre[t].sequence < sequenceMask)
                 => ret'[t] = ComposeID(T, w[g].datacenterID, w[g].workerID,
                                        pre[t].sequence + 1)
            /\ (pre[t].reading = T /\ pre[t].sequence = sequenceMask)
                 => /\ Less(T, w'[g].lastTimestamp)
                    /\ ret'[t] = ComposeID(w'[g].lastTimestamp, w[g].datacenterID,
                                           w[g].workerID, 0)
            /\ pre[t].reading # T
                 => ret'[t] = ComposeID(pre[t].reading, w[g].datacenterID,
                                        w[g].workerID, 0)
            /\ lastIssued[g] # NoID => ret'[t] > lastIssued[g]]_vars

\* C6 witness: the call that found sequence 4095 in its own millisecond has
\* left tilNextMillis with a later reading.
C6_Witness ==
  /\ pc["t1"] = "store"
  /\ pre["t1"].sequence = sequenceMask
  /\ pre["t1"].reading = pre["t1"].lastTimestamp
  /\ w["w1"].sequence = 0
  /\ Less(w["w1"].lastTimestamp, timestamp["t1"])

\* C12: one worker called by one thread, call after call, under a clock that
\* moves forward and backward at any moment, also while a call waits in
\* tilNextMillis: every identifier returned is strictly greater than the one
\* returned before it, hence than all returned before and equal to none of
\* them, and the timestamp a successful call stores is not below the one it
\* replaces.
C12_SequentialUnique ==
  [][\A t \in Threads :
       Issues(t) =>
         LET g == target[t]
         IN /\ lastIssued[g] # NoID => lastIssued[g] < ret'[t]
            /\ lastIssued'[g] = ret'[t]
            /\ ~Less(timestamp[t], w[g].lastTimestamp)
            /\ timestamp[t] = w[g].lastTimestamp => 0 < w[g].sequence]_vars

\* C12 witness: the call before failed because the clock had been set back;
\* this call found sequence 4095, waits in tilNextMillis, and the clock has
\* been set back again below lastTimestamp while it waits.
C12_Witness ==
  /\ pc["t1"] = "spin" /\ err["t1"].failed
  /\ lastIssued["w1"] # NoID
  /\ pre["t1"].reading = w["w1"].lastTimestamp
  /\ Less(clock, w["w1"].lastTimestamp)

(***************************************************************************)
(* Claims about construction and the layout of the identifier (SpecNew,    *)
(* SpecPair).                                                              *)
(***************************************************************************)
\* C7: every identifier a call returns decodes to what it was built from:
\* (id >> 12) & 31 is the workerID and (id >> 17) & 31 the datacenterID given
\* to NewWorker, id & 4095 is the sequence the call stored, and id >> 22 is
\* the millisecond the call stored minus 1546272000000.
C7_Decodes ==
  [][\A t \in Threads :
       (Issues(t) \/ NextBurst(t)) =>
         LET g == target[t]
             id == ret'[t]
         IN /\ BitAnd(Shr(id, 12), 31) = args[g][1]
            /\ BitAnd(Shr(id, 17), 31) = args[g][2]
            /\ BitAnd(id, 4095) = w'[g].sequence
            /\ Millis(0, Shr(id, 22)) = Sub(w'[g].lastTimestamp, Millis(1546272, 0))]_vars

\* C7 witness: NewWorker(0, 0), first call at 1546272000100: the identifier
\* returned decodes to 100, 0, 0, 0.
C7_Witness ==
  /\ args["w1"] = <<0, 0>>
  /\ pc["t1"] = "idle" /\ ~err["t1"].failed
  /\ w["w1"].lastTimestamp = Millis(1546272, 100) /\ w["w1"].sequence = 0
  /\ ret["t1"] = lastIssued["w1"]
  /\ Shr(ret["t1"], 22) = 100
  /\ BitAnd(Shr(ret["t1"], 17), 31) = 0
  /\ BitAnd(Shr(ret["t1"], 12), 31) = 0
  /\ BitAnd(ret["t1"], 4095) = 0

\* C8: two workers made with different (workerID, datacenterID) never return
\* the same identifier.
C8_DistinctAcrossWorkers ==
  ({"w1", "w2"} \subseteq made /\ args["w1"] # args["w2"])
    => \A a \in (issued["w1"] \cup {lastIssued["w1"]}) \ {NoID} :
         \A b \in (issued["w2"] \cup {lastIssued["w2"]}) \ {NoID} : a # b

\* C8 witness: two workers with different ids have both issued at the same
\* timestamp with the same sequence.
C8_Witness ==
  /\ {"w1", "w2"} \subseteq made /\ args["w1"] # args["w2"]
  /\ lastIssued["w1"] # NoID /\ lastIssued["w2"] # NoID
  /\ w["w1"].lastTimestamp = w["w2"].lastTimestamp
  /\ w["w1"].sequence = w["w2"].sequence
  /\ pc["t1"] = "idle" /\ pc["t2"] = "idle"

\* C9: NewWorker with both arguments in 0..31 returns a worker holding exactly
\* these ids, with sequence 0, lastTimestamp 0 and a free mutex, on which Next
\* can be called; with an argument of 32 or more it ends the process: no
\* worker is returned and no call of Next ever starts.
C9_AfterNewWorker ==
  LET a == args["w1"]
  IN /\ a = NoArgs => ("w1" \notin made /\ ~fatal)
     /\ (a # NoArgs /\ a[1] \in 0 .. 31 /\ a[2] \in 0 .. 31) =>
          /\ "w1" \in made /\ ~fatal
          /\ w["w1"].workerID = a[1] /\ w["w1"].datacenterID = a[2]
          /\ (pc["t1"] = "idle" /\ budget > 0) => ENABLED NextNow("t1")
     /\ (a # NoArgs /\ (a[1] >= 32 \/ a[2] >= 32)) =>
          /\ fatal /\ "w1" \notin made
          /\ \A t \in Threads : pc[t] = "idle" /\ ~ENABLED NextNow(t)
          /\ lastIssued["w1"] = NoID /\ budget = NewCalls

C9_Construction ==
  /\ []C9_AfterNewWorker
  /\ [][("w1" \notin made /\ "w1" \in made')
          => w'["w1"] = [workerID |-> args'["w1"][1],
                         datacenterID |-> args'["w1"][2],
                         sequence |-> 0, lastTimestamp |-> Millis(0, 0),
                         mutex |-> FALSE]]_vars

\* C9 witness: NewWorker(31, 32) has ended the process.
C9_Witness ==
  /\ args["w1"] = <<31, 32>>
  /\ fatal /\ "w1" \notin made

(***************************************************************************)
(* Claims about the package-level Next (SpecDefault).                      *)
(***************************************************************************)
\* the package-level Next is served by DefaultWorker, which exists from the
\* start with ids 0 and 0 and, until it has issued, lastTimestamp 0 and
\* sequence 0
C13_DefaultIsZero ==
  /\ target["t1"] = "DefaultWorker" /\ "DefaultWorker" \in made
  /\ w["DefaultWorker"].workerID = 0 /\ w["DefaultWorker"].datacenterID = 0
  /\ lastIssued["DefaultWorker"] = NoID =>
       /\ w["DefaultWorker"].sequence = 0
       /\ w["DefaultWorker"].lastTimestamp = Millis(0, 0)

\* C13: the package-level Next works on DefaultWorker alone, which starts
\* with sequence 0 and lastTimestamp 0; every identifier it returns has
\* worker field 0 and datacenter field 0; and whenever a caller of the worker
\* made by NewWorker(0, 0) takes, with the same clock reading, the step the
\* caller of the package-level Next has taken, it arrives at the same result,
\* the same error and the same worker state.
C13_DefaultLikeNewWorker ==
  /\ []C13_DefaultIsZero
  /\ [][/\ (Issues("t1") \/ NextBurst("t1")) =>
            /\ BitAnd(Shr(ret'["t1"], 12), 31) = 0
            /\ BitAnd(Shr(ret'["t1"], 17), 31) = 0
        /\ pc'["t1"] # pc["t1"] => w'["w1"] = w["w1"]
        /\ w'["DefaultWorker"] # w["DefaultWorker"] =>
             (pc'["t1"] # pc["t1"] \/ NextBurst("t1"))
        /\ ~InStep => InStep']_vars

\* C13 witness: after 4095 further calls in one millisecond, the next call of
\* either caller has waited in tilNextMillis, and both have returned the same
\* identifier with sequence 0 and ids 0 and 0.
C13_Witness ==
  /\ args["w1"] = <<0, 0>>
  /\ InStep /\ pc["t1"] = "idle" /\ ~err["t1"].failed
  /\ pre["t1"] = NoPre
  /\ ret["t1"] = lastIssued["DefaultWorker"] /\ ret["t2"] = lastIssued["w1"]
  /\ ret["t1"] = Shl(Small(Sub(w["DefaultWorker"].lastTimestamp, twepoch)), 22)
  /\ Less(Millis(twepoch.hi, 100), w["DefaultWorker"].lastTimestamp)
  /\ budget = MaxCalls - 4

(***************************************************************************)
(* Claims about termination (SpecLive).                                    *)
(***************************************************************************)
\* the mutex of a worker is free whenever no call on it is in progress
C11_LockFree ==
  \A g \in Workers :
    (\A t \in Threads : target[t] = g => pc[t] = "idle") => ~w[g].mutex

\* C11: under fair scheduling and a clock that goes on, every call of Next
\* that has started returns, with an identifier or with the error: also the
\* call that waits in tilNextMillis and the call that waits for the mutex
\* behind it; and the mutex is free whenever no call is in progress.
C11_EveryCallReturns ==
  /\ []C11_LockFree
  /\ \A t \in Threads : (pc[t] # "idle") ~> (pc[t] = "idle")

\* C11 witness: one call waits in tilNextMillis, holding the mutex, and the
\* call of the other thread waits for the mutex.
C11_Witness ==
  /\ pc["t1"] = "spin" /\ pc["t2"] = "lock"
  /\ w["w1"].mutex /\ w["w1"].sequence = 0

====
